---- MODULE Spec2Model ----
(***************************************************************************)
(* Model of generate_audio.py: main() renders the narration table into one *)
(* WAV clip per entry and records each clip's duration in durations.json.  *)
(*                                                                         *)
(* Representation choices (all derived from the source):                   *)
(*  - an audio buffer is a run-length encoded sample sequence: a sequence  *)
(*    of runs [v |-> sample value, n |-> number of samples], kept          *)
(*    canonical (adjacent runs differ in v, every n > 0), so that two      *)
(*    buffers are equal exactly when their samples are equal;              *)
(*  - a file is absent, a WAV file written by sf.write (fixed header +     *)
(*    16-bit samples) or a raw file of some size left by something else;   *)
(*  - total_dur, a float number of seconds in the source, is kept as the   *)
(*    exact number of bytes measured: seconds = total_dur / BYTES_PER_SEC; *)
(*  - durations, a dict, is the sequence of its items in insertion order;  *)
(*    durations.json holds that sequence (json.dump keeps the order);      *)
(*  - the synthesizer is deterministic: its answer for a text is drawn     *)
(*    when the text is first synthesized and repeated afterwards;          *)
(*  - doubles are not approximated: RoundMs computes, in integers, what    *)
(*    round(size / (24000 * 2) * 1000) gives in IEEE double arithmetic.    *)
(***************************************************************************)
EXTENDS Integers, Sequences, FiniteSets, TLC

\* ------------------------------------------------------------ bounds
\* Number of entries of the narration table that are modelled (a prefix).
NumEntries == 2
\* Largest number of chunks the synthesizer yields for one text.
MaxChunks == 2
\* Largest number of bytes of its text a failing dump of durations.json
\* gets onto the disk (the code can fail after any number of them).
MaxDumpCut == 1

\* ------------------------------------------------- program constants
\* sf.write(..., 24000): the sample rate.
SAMPLE_RATE == 24000
\* 16-bit mono: the "2" of 24000 * 2.
BYTES_PER_SAMPLE == 2
\* Size of the RIFF/WAVE header sf.write emits before 16-bit PCM data.
WAV_HEADER_BYTES == 44

BYTES_PER_SEC == SAMPLE_RATE * BYTES_PER_SAMPLE

AllFilenames ==
    << "01.wav", "02.wav", "03.wav", "04.wav", "05.wav", "06.wav", "07.wav",
       "08.wav", "09.wav", "10.wav", "11.wav", "12.wav", "13.wav", "14.wav",
       "15.wav", "16.wav" >>

\* The narration table: (filename, text) pairs in order. The text of entry
\* k is named by k: the sixteen texts of the source are pairwise distinct.
NARRATIONS ==
    [k \in 1..NumEntries |-> [filename |-> AllFilenames[k], text |-> k]]

Filenames == {NARRATIONS[k].filename : k \in 1..NumEntries}
Texts == {NARRATIONS[k].text : k \in 1..NumEntries}

\* ------------------------------------------------------ audio buffers
\* The chunks a synthesizer may yield: one second of one sample value, and
\* a short chunk of another whose WAV size falls on a rounding tie.
ChunkChoices == { [v |-> 1, n |-> SAMPLE_RATE], [v |-> 2, n |-> 14] }

RECURSIVE SeqsUpTo(_, _)
SeqsUpTo(S, n) ==
    IF n = 0 THEN { <<>> }
    ELSE LET shorter == SeqsUpTo(S, n - 1)
         IN  shorter \cup { Append(s, x) : s \in {t \in shorter : Len(t) = n - 1}, x \in S }

\* What pipeline(text, ...) can do for one text: yield a finite sequence of
\* chunks (possibly none) and end, or yield some chunks (possibly none) and
\* then raise.
SynthOutcomes ==
    { [state |-> st, chunks |-> cs] :
        st \in {"ok", "raise"}, cs \in SeqsUpTo(ChunkChoices, MaxChunks) }
NotSynthesized == [state |-> "unset", chunks |-> <<>>]

\* Append one chunk's samples to a canonical buffer.
AppendRun(buf, c) ==
    IF c.n = 0 THEN buf
    ELSE IF Len(buf) > 0 /\ buf[Len(buf)].v = c.v
         THEN [buf EXCEPT ![Len(buf)].n = @ + c.n]
         ELSE Append(buf, c)

RECURSIVE ConcatFrom(_, _)
ConcatFrom(buf, cs) ==
    IF cs = <<>> THEN buf ELSE ConcatFrom(AppendRun(buf, Head(cs)), Tail(cs))

\* A plausible slip: the chunks joined in reverse order.
RECURSIVE ConcatReversed(_)
ConcatReversed(cs) ==
    IF cs = <<>> THEN <<>>
    ELSE ConcatFrom(ConcatReversed(Tail(cs)), << Head(cs) >>)

\* np.concatenate(chunks): the chunks' samples, in order.
Concatenate(cs) == ConcatFrom(<<>>, cs)

RECURSIVE NumSamples(_)
NumSamples(buf) ==
    IF buf = <<>> THEN 0 ELSE Head(buf).n + NumSamples(Tail(buf))

\* -------------------------------------------------------------- files
NoFile == [kind |-> "absent"]
WavFile(audio) ==
    [kind |-> "wav", audio |-> audio,
     size |-> WAV_HEADER_BYTES + BYTES_PER_SAMPLE * NumSamples(audio)]
RawFile(n) == [kind |-> "raw", size |-> n]

\* What the output directory may hold under an entry's name before a run:
\* nothing, a clip of an earlier run (12,014 samples, 24,072 bytes), or a
\* file that is no clip at all. Both sizes fall on a rounding tie that the
\* double computation misses, one from below and one from above.
InitialFiles == { NoFile, WavFile(<< [v |-> 2, n |-> 12014] >>), RawFile(96024) }

\* What durations.json may hold before a run.
InitialDurfiles == { NoFile, [kind |-> "json", items |-> << [key |-> "01.wav", ms |-> 7] >>] }

\* A plausible slip: sf.write appending to an existing clip.
SfWriteAppend(d, path, audio) ==
    [d EXCEPT ![path] =
        IF @.kind = "wav" THEN WavFile(ConcatFrom(@.audio, audio))
        ELSE WavFile(audio)]

\* sf.write(str(out_path), full_audio, 24000): create or overwrite.
SfWrite(d, path, audio) == [d EXCEPT ![path] = WavFile(audio)]

\* A plausible slip: the payload's size instead of the file's.
StatPayloadSize(d, path) == d[path].size - WAV_HEADER_BYTES

\* out_path.stat().st_size, for a file that exists.
StatSize(d, path) == d[path].size

\* 2^n, and 2^n modulo 375.
RECURSIVE Pow2(_)
Pow2(n) == IF n = 0 THEN 1 ELSE 2 * Pow2(n - 1)

RECURSIVE Pow2Mod375(_)
Pow2Mod375(n) ==
    IF n = 0 THEN 1
    ELSE IF n % 2 = 1 THEN (2 * Pow2Mod375(n - 1)) % 375
    ELSE LET h == Pow2Mod375(n \div 2) IN (h * h) % 375

RECURSIVE IsPow2(_)
IsPow2(n) == n = 1 \/ (n > 1 /\ n % 2 = 0 /\ IsPow2(n \div 2))

\* The binary exponent a of size / 375: 2^a <= size / 375 < 2^(a+1).
RECURSIVE ExpUp(_, _)
ExpUp(size, a) ==
    IF size \div Pow2(a + 1) >= 375 THEN ExpUp(size, a + 1) ELSE a

RECURSIVE ExpDown(_, _)
ExpDown(size, t) ==
    IF size * Pow2(t) < 375 THEN ExpDown(size, t + 1) ELSE 0 - t

Exp375(size) == IF size >= 375 THEN ExpUp(size, 0) ELSE ExpDown(size, 1)

\* For a size on a tie (size = 48 q + 24): where the double
\* size / 48000 * 1000 lies relative to q + 0.5 (-1 below, 0 on it, 1 above).
\* 48000 = 2^7 * 375 and 1000 = 2^3 * 125, and scaling by a power of two is
\* exact, so the double is fl(fl(size / 375) * 125) / 16 and the exact
\* product is the integer size / 3. With m = fl(size / 375), a 53-bit
\* significand of unit u = 2^(a - 52), the division's error is rem / 375
\* units (rem the remainder of size * 2^(52 - a) by 375, taken to the nearer
\* side), the product is off size / 3 by -rem / 3 units, and it rounds back
\* to size / 3 unless that exceeds half a unit of the product (32 u or 64 u;
\* half of that just below a power of two).
TieDrift(size) ==
    LET a == Exp375(size)
        rem == ((size % 375) * Pow2Mod375(52 - a)) % 375
        err == IF 2 * rem < 375 THEN rem ELSE rem - 375
        low == IF a >= 0 THEN size < 384 * Pow2(a) ELSE size * Pow2(0 - a) < 384
        half == IF low THEN 32 ELSE 64
        halfDown == IF IsPow2(size \div 3) THEN half \div 2 ELSE half
    IN  IF 0 - err > 3 * half THEN 1
        ELSE IF err > 3 * halfDown THEN -1
        ELSE 0

\* round(dur * 1000) with dur = size / (24000 * 2), in doubles as the
\* source computes it: off a tie the nearest integer to size / 48; on a tie
\* the side the double product fell to, or the even neighbour when the
\* product is exactly q + 0.5 (Python's round).
RoundMs(size) ==
    LET d == BYTES_PER_SEC \div 1000
        q == size \div d
        r == size % d
        drift == TieDrift(size)
    IN  IF 2 * r # d THEN (IF 2 * r > d THEN q + 1 ELSE q)
        ELSE IF drift = 1 THEN q + 1
        ELSE IF drift = -1 THEN q
        ELSE IF q % 2 = 1 THEN q + 1 ELSE q

\* A plausible slip: the rounded milliseconds accumulated instead.
AddRounded(total, size) == total + RoundMs(size) * (BYTES_PER_SEC \div 1000)

\* total_dur += dur, with dur = size / 48000 seconds kept as bytes.
AddDur(total, size) == total + size

\* ------------------------------------------------------- the dict
Keys(items) == { items[k].key : k \in 1..Len(items) }
KeySeq(items) == [k \in 1..Len(items) |-> items[k].key]

\* A plausible slip: a new key put first.
DictSetFirst(items, key, ms) ==
    IF key \in Keys(items)
    THEN [k \in 1..Len(items) |->
            IF items[k].key = key THEN [key |-> key, ms |-> ms] ELSE items[k]]
    ELSE << [key |-> key, ms |-> ms] >> \o items

\* durations[filename] = dur_ms: a new key goes last, a known key keeps
\* its place.
DictSet(items, key, ms) ==
    IF key \in Keys(items)
    THEN [k \in 1..Len(items) |->
            IF items[k].key = key THEN [key |-> key, ms |-> ms] ELSE items[k]]
    ELSE Append(items, [key |-> key, ms |-> ms])

\* json.dump(durations, f, indent=2) into a file opened with "w".
JsonDump(items) == [kind |-> "json", items |-> items]

\* Number of decimal digits of a natural number.
RECURSIVE Digits(_)
Digits(n) == IF n < 10 THEN 1 ELSE 1 + Digits(n \div 10)

\* Bytes of the text json.dump(items, indent=2) writes: "{}" for no item,
\* else "{\n", one line '  "key": ms' per item, ",\n" between, "\n}".
RECURSIVE JsonLinesLen(_)
JsonLinesLen(items) ==
    IF items = <<>> THEN 0
    ELSE 2 + 1 + Len(Head(items).key) + 1 + 2 + Digits(Head(items).ms)
         + JsonLinesLen(Tail(items))

JsonLen(items) ==
    IF items = <<>> THEN 2
    ELSE 2 + JsonLinesLen(items) + 2 * (Len(items) - 1) + 2

\* How far into its text a failing dump may get: any number of bytes short
\* of the whole text, here up to MaxDumpCut.
DumpCuts(items) == { n \in 0..MaxDumpCut : n < JsonLen(items) }

\* durations.json after a dump that failed n bytes into the text (the file
\* was truncated by open(..., "w")): the first n bytes of the text.
PartialDump(items, n) ==
    IF n = 0 THEN RawFile(0) ELSE [kind |-> "partial", items |-> items, size |-> n]

\* -------------------------------------------------------------- state
VARIABLES
    pc,         \* where main() is: init, synth, write, measure, save, done, aborted
    idx,        \* the entry of NARRATIONS the loop is at
    chunks,     \* the list chunks of the current iteration
    durations,  \* the dict durations, as its items in insertion order
    total_dur,  \* the running total, in bytes (seconds * 48000)
    disk,       \* OUTPUT_DIR: filename -> file
    durfile,    \* OUTPUT_DIR / "durations.json"
    synth,      \* the synthesizer: text -> what it yields (drawn at first use)
    rerun,      \* whether this is the second run of main()
    error,      \* the exception that ended the run, or "none"
    failedAt,   \* the step (a value of pc) that raised it, or "none"
    reported,   \* the total of the "Total narration" line, in bytes; -1 before it
    writes,     \* history: the sf.write calls of this run, in order, each
                \* with whether it returned (ok) or raised
    durWrites,  \* history: how many times this run opened durations.json
                \* for writing (which truncates it)
    pre         \* history: disk and durfile when this run started

vars == << pc, idx, chunks, durations, total_dur, disk, durfile, synth, rerun,
           error, failedAt, reported, writes, durWrites, pre >>

Entry == NARRATIONS[idx]

\* The loop's next position: the next entry, or the code after the loop.
LoopPc(k) == IF k > NumEntries THEN "save" ELSE "synth"

Init ==
    /\ pc = "init"
    /\ idx = 0
    /\ chunks = <<>>
    /\ durations = <<>>
    /\ total_dur = 0
    /\ disk \in [Filenames -> InitialFiles]
    /\ durfile \in InitialDurfiles
    /\ synth = [t \in Texts |-> NotSynthesized]
    /\ rerun = FALSE
    /\ error = "none"
    /\ failedAt = "none"
    /\ reported = -1
    /\ writes = <<>>
    /\ durWrites = 0
    /\ pre = [disk |-> disk, durfile |-> durfile]

\* An uncaught exception: main() ends there, whatever is on disk stays.
Abort(e) ==
    /\ pc' = "aborted"
    /\ error' = e
    /\ failedAt' = pc
    /\ UNCHANGED << idx, chunks, durations, total_dur, synth, rerun, reported,
                    writes, durWrites, pre >>

\* OUTPUT_DIR.mkdir, KPipeline(...), durations = {}, total_dur = 0.0.
MainStart ==
    /\ pc = "init"
    /\ \/ /\ pc' = LoopPc(1)
          /\ idx' = 1
          /\ durations' = <<>>
          /\ total_dur' = 0
          /\ UNCHANGED << chunks, disk, durfile, synth, rerun, error, failedAt, reported,
                          writes, durWrites, pre >>
       \/ /\ Abort("IOFailure")
          /\ UNCHANGED << disk, durfile >>

\* chunks = []; for ... in pipeline(text, voice=VOICE, speed=1.0): append.
Synthesize ==
    /\ pc = "synth"
    /\ \E o \in SynthOutcomes :
          /\ synth[Entry.text] \in { NotSynthesized, o }
          /\ \/ /\ o.state = "ok"
                /\ synth' = [synth EXCEPT ![Entry.text] = o]
                /\ chunks' = o.chunks
                /\ pc' = "write"
                /\ UNCHANGED << idx, durations, total_dur, disk, durfile, rerun,
                                error, failedAt, reported, writes, durWrites, pre >>
             \/ \* the stream raises after the chunks it yielded were appended
                /\ o.state = "raise"
                /\ pc' = "aborted"
                /\ error' = "SynthesisFailure"
                /\ failedAt' = pc
                /\ synth' = [synth EXCEPT ![Entry.text] = o]
                /\ chunks' = o.chunks
                /\ UNCHANGED << idx, durations, total_dur, disk, durfile,
                                rerun, reported, writes, durWrites, pre >>

\* if chunks: full_audio = np.concatenate(chunks); sf.write(out_path, ...).
WriteClip ==
    /\ pc = "write"
    /\ \/ /\ chunks # <<>>
          /\ disk' = SfWrite(disk, Entry.filename, Concatenate(chunks))
          /\ writes' = Append(writes, [entry |-> idx, path |-> Entry.filename,
                                       audio |-> Concatenate(chunks), ok |-> TRUE])
          /\ pc' = "measure"
          /\ UNCHANGED << idx, chunks, durations, total_dur, durfile, synth, rerun,
                          error, failedAt, reported, durWrites, pre >>
       \/ /\ chunks # <<>>
          \* sf.write raises: the file is untouched, or was created empty.
          /\ disk' \in { disk, [disk EXCEPT ![Entry.filename] = RawFile(0)] }
          /\ pc' = "aborted"
          /\ error' = "IOFailure"
          /\ failedAt' = pc
          /\ writes' = Append(writes, [entry |-> idx, path |-> Entry.filename,
                                       audio |-> Concatenate(chunks), ok |-> FALSE])
          /\ UNCHANGED << idx, chunks, durations, total_dur, durfile, synth, rerun,
                          reported, durWrites, pre >>
       \/ /\ chunks = <<>>
          /\ pc' = "measure"
          /\ UNCHANGED << idx, chunks, durations, total_dur, disk, durfile, synth,
                          rerun, error, failedAt, reported, writes, durWrites, pre >>

\* A plausible repair: the measurement skipped when nothing was written.
MeasureOnlyWritten ==
    /\ pc = "measure"
    /\ IF chunks # <<>>
       THEN /\ durations' = DictSet(durations, Entry.filename,
                                    RoundMs(StatSize(disk, Entry.filename)))
            /\ total_dur' = AddDur(total_dur, StatSize(disk, Entry.filename))
       ELSE UNCHANGED << durations, total_dur >>
    /\ idx' = idx + 1
    /\ pc' = LoopPc(idx + 1)
    /\ UNCHANGED << chunks, disk, durfile, synth, rerun, error, failedAt, reported,
                    writes, durWrites, pre >>

\* A plausible slip: the record file rewritten after every entry.
MeasureAndDump ==
    /\ pc = "measure"
    /\ disk[Entry.filename] # NoFile
    /\ durations' = DictSet(durations, Entry.filename,
                            RoundMs(StatSize(disk, Entry.filename)))
    /\ total_dur' = AddDur(total_dur, StatSize(disk, Entry.filename))
    /\ durfile' = JsonDump(durations')
    /\ durWrites' = durWrites + 1
    /\ idx' = idx + 1
    /\ pc' = LoopPc(idx + 1)
    /\ UNCHANGED << chunks, disk, synth, rerun, error, failedAt, reported, writes, pre >>

\* dur = out_path.stat().st_size / (24000 * 2); dur_ms = round(dur * 1000);
\* durations[filename] = dur_ms; total_dur += dur. stat() raises
\* FileNotFoundError when there is no file at out_path.
Measure ==
    /\ pc = "measure"
    /\ \/ /\ disk[Entry.filename] # NoFile
          /\ durations' = DictSet(durations, Entry.filename,
                                  RoundMs(StatSize(disk, Entry.filename)))
          /\ total_dur' = AddDur(total_dur, StatSize(disk, Entry.filename))
          /\ idx' = idx + 1
          /\ pc' = LoopPc(idx + 1)
          /\ UNCHANGED << chunks, disk, durfile, synth, rerun, error, failedAt, reported,
                          writes, durWrites, pre >>
       \/ /\ disk[Entry.filename] = NoFile
          /\ Abort("FileNotFoundError")
          /\ UNCHANGED << disk, durfile >>

\* with open(dur_path, "w") as f: json.dump(durations, f, indent=2); then
\* the closing prints, with the total.
SaveDurations ==
    /\ pc = "save"
    /\ \/ /\ durfile' = JsonDump(durations)
          /\ durWrites' = durWrites + 1
          /\ reported' = total_dur
          /\ pc' = "done"
          /\ UNCHANGED << idx, chunks, durations, total_dur, disk, synth, rerun,
                          error, failedAt, writes, pre >>
       \/ \* open() raises: the file is untouched.
          /\ Abort("IOFailure")
          /\ UNCHANGED << disk, durfile >>
       \/ \* open() truncates the file, then the write raises part of the way:
          \* the file holds a proper prefix of the text.
          /\ \E n \in DumpCuts(durations) : durfile' = PartialDump(durations, n)
          /\ durWrites' = durWrites + 1
          /\ pc' = "aborted"
          /\ error' = "IOFailure"
          /\ failedAt' = pc
          /\ UNCHANGED << idx, chunks, durations, total_dur, disk, synth, rerun,
                          reported, writes, pre >>

\* main() is run again on the directory a completed run left.
Rerun ==
    /\ pc = "done"
    /\ ~rerun
    /\ rerun' = TRUE
    /\ pc' = "init"
    /\ idx' = 0
    /\ chunks' = <<>>
    /\ durations' = <<>>
    /\ total_dur' = 0
    /\ reported' = -1
    /\ writes' = <<>>
    /\ durWrites' = 0
    /\ pre' = [disk |-> disk, durfile |-> durfile]
    /\ UNCHANGED << disk, durfile, synth, error, failedAt >>

Next ==
    \/ MainStart
    \/ Synthesize
    \/ WriteClip
    \/ Measure
    \/ SaveDurations
    \/ Rerun

Spec == Init /\ [][Next]_vars

\* ------------------------------------------------- properties: helpers
FilenameOf(k) == NARRATIONS[k].filename
YieldOf(k) == synth[NARRATIONS[k].text].chunks

\* Entry k's iteration is past its write step in this run.
PastWrite(k) ==
    \/ k < idx
    \/ k = idx /\ (pc = "measure" \/ (pc = "aborted" /\ failedAt = "measure"))

\* Entry k's iteration is complete in this run.
PastMeasure(k) == 1 <= k /\ k < idx

\* The sf.write calls that returned: the writes made.
Written == SelectSeq(writes, LAMBDA w : w.ok)
WritesOf(k) == { j \in 1..Len(writes) : writes[j].entry = k /\ writes[j].ok }
WrittenPaths == { Written[j].path : j \in 1..Len(Written) }

\* The recorded milliseconds of a key.
MsOf(items, key) ==
    LET j == CHOOSE j \in 1..Len(items) : items[j].key = key IN items[j].ms

\* buf holds the chunks' samples one chunk after the other and nothing
\* else: taking each chunk's samples off the front of buf, in order, finds
\* them there and leaves nothing.
RECURSIVE IsInOrderJoin(_, _)
IsInOrderJoin(buf, cs) ==
    IF cs = <<>> THEN buf = <<>>
    ELSE /\ buf # <<>>
         /\ Head(buf).v = Head(cs).v
         /\ Head(buf).n >= Head(cs).n
         /\ IsInOrderJoin(
                IF Head(buf).n = Head(cs).n THEN Tail(buf)
                ELSE << [v |-> Head(buf).v, n |-> Head(buf).n - Head(cs).n] >> \o Tail(buf),
                Tail(cs))

\* ms is what round(size / 48000 * 1000) gives: a natural number, at most
\* half a millisecond away from size / 48000 seconds.
IsRoundedMs(ms, size) ==
    LET diff == BYTES_PER_SEC * ms - 1000 * size
        dist == IF diff < 0 THEN -diff ELSE diff
    IN  /\ ms \in Nat
        /\ 2 * dist <= BYTES_PER_SEC
        /\ ms = RoundMs(size)

\* Bytes of the files of entries 1..k that have a key, added in table order.
RECURSIVE RecordedBytes(_, _)
RecordedBytes(items, k) ==
    IF k = 0 THEN 0
    ELSE RecordedBytes(items, k - 1)
         + (IF FilenameOf(k) \in Keys(items) THEN disk[FilenameOf(k)].size ELSE 0)

\* ---------------------------------------------------------------- C1
\* C1: when the synthesizer yields zero chunks for an entry, main() does
\* not raise at that entry; it goes on to the next entries and to the end.
C1_EmptySynthesisNeverRaises ==
    ~(pc = "aborted" /\ idx \in 1..NumEntries /\ YieldOf(idx) = <<>>
        /\ failedAt \in {"write", "measure"})

\* ---------------------------------------------------------------- C2
\* C2: at the end of a completed run the keys of durations.json are exactly
\* the filenames whose clip was written during the run, one key each.
C2_KeysAreWrittenFiles ==
    pc = "done" =>
        /\ Keys(durfile.items) = WrittenPaths
        /\ Len(durfile.items) = Cardinality(WrittenPaths)

\* ---------------------------------------------------------------- C3
\* C3: for every entry whose synthesis yields at least one chunk, its
\* iteration makes exactly one sf.write call, to the entry's filename, with
\* the chunks' samples in the order produced, and that is the file on disk.
C3_OneClipPerNonEmptyEntry ==
    \A k \in 1..NumEntries :
        (PastWrite(k) /\ YieldOf(k) # <<>>) =>
            \E j \in 1..Len(writes) :
                /\ writes[j].entry = k
                /\ writes[j].ok
                /\ \A m \in 1..Len(writes) : writes[m].entry = k => m = j
                /\ writes[j].path = FilenameOf(k)
                /\ disk[FilenameOf(k)].kind = "wav"
                /\ disk[FilenameOf(k)].audio = writes[j].audio
                /\ IsInOrderJoin(writes[j].audio, YieldOf(k))

\* A two-chunk entry with chunks of different samples has been written.
C3_Witness ==
    \E k \in 1..NumEntries :
        /\ PastWrite(k)
        /\ Len(YieldOf(k)) = 2
        /\ YieldOf(k)[1] # YieldOf(k)[2]
        /\ WritesOf(k) # {}

\* ---------------------------------------------------------------- C4
\* C4: an entry synthesized as one chunk of 24,000 samples gets a file with
\* 48,000 bytes of payload after the header and the duration 1000 ms: the
\* playback duration of its samples, whatever the header's size.
C4_OneSecondClipRecords1000 ==
    \A k \in 1..NumEntries :
        (PastMeasure(k) /\ Len(YieldOf(k)) = 1 /\ YieldOf(k)[1].n = SAMPLE_RATE) =>
            /\ disk[FilenameOf(k)].size - WAV_HEADER_BYTES = SAMPLE_RATE * BYTES_PER_SAMPLE
            /\ MsOf(durations, FilenameOf(k)) = 1000

\* ---------------------------------------------------------------- C5
\* C5: every value put in the duration record is an integer and equals
\* round(size / 48000 * 1000), size being the size on disk of the entry's
\* file when it is measured, right after the entry's write step; the file
\* is not touched by the measurement, and the values persisted at the end
\* are the recorded ones.
C5_DurationFromFileSize ==
    /\ [][(pc = "measure" /\ pc' # "aborted") =>
            /\ Entry.filename \in Keys(durations')
            /\ IsRoundedMs(MsOf(durations', Entry.filename), disk[Entry.filename].size)
            /\ disk' = disk
            /\ \A j \in 1..Len(durations) : durations'[j] = durations[j]]_vars
    /\ [](pc = "done" => durfile.items = durations)

\* Recorded: a file on a tie the double product hits (72 bytes, 1.5 -> 2)
\* and one on a tie it misses (24,072 bytes, 501.49999999999994 -> 501).
C5_Witness ==
    /\ Len(durations) >= 2
    /\ \E j \in 1..Len(durations) :
          disk[durations[j].key].size = 72 /\ durations[j].ms = 2
    /\ \E j \in 1..Len(durations) :
          disk[durations[j].key].size = 24072 /\ durations[j].ms = 501

\* ---------------------------------------------------------------- C6
\* C6: durations.json is written once per completed run and only after the
\* last entry: while entries remain, and after an abort at any entry, it is
\* as it was when the run started, and the clips written so far are on disk.
C6_RecordPersistedOnceAtEnd ==
    /\ (pc \in {"init", "synth", "write", "measure"}
          \/ (pc = "aborted" /\ failedAt # "save"))
        => (durfile = pre.durfile /\ durWrites = 0)
    /\ pc = "done" => (durWrites = 1 /\ durfile = JsonDump(durations))
    /\ \A j \in 1..Len(writes) :
          writes[j].ok => disk[writes[j].path] = WavFile(writes[j].audio)

\* A run aborted by a failing sf.write for its second entry, after a clip
\* was written and measured for the first.
C6_Witness ==
    /\ pc = "aborted"
    /\ idx = 2
    /\ Len(writes) = 2
    /\ writes[1].ok
    /\ ~writes[2].ok
    /\ Len(durations) = 1
    /\ pre.durfile # NoFile

\* ---------------------------------------------------------------- C7
\* C7: the recorded keys, in insertion order, are the table's filenames in
\* table order, and an entry is recorded before the next one is synthesized.
C7_KeysInTableOrder ==
    /\ \A a, b \in 1..Len(durations) :
          a < b => \E ka, kb \in 1..NumEntries :
                      /\ ka < kb
                      /\ durations[a].key = FilenameOf(ka)
                      /\ durations[b].key = FilenameOf(kb)
    /\ (pc \in {"synth", "write", "measure"}) =>
          \A k \in 1..(idx - 1) : FilenameOf(k) \in Keys(durations)
    /\ \A a, b \in 1..Len(writes) : a < b => writes[a].entry < writes[b].entry
    /\ pc = "done" => KeySeq(durfile.items) = [k \in 1..NumEntries |-> FilenameOf(k)]

\* The second entry is being synthesized with the first one recorded.
C7_Witness ==
    /\ pc = "write"
    /\ idx = 2
    /\ KeySeq(durations) = << FilenameOf(1) >>

\* ---------------------------------------------------------------- C8
\* C8: the reported total is the sum, in table order, of size / 48000 over
\* exactly the entries that have a key in the duration record (kept here in
\* bytes, that is, multiplied by 48000).
C8_TotalIsSumOfRecorded ==
    /\ pc \in {"synth", "write", "measure", "save"} =>
          total_dur = RecordedBytes(durations, NumEntries)
    /\ pc = "done" => reported = RecordedBytes(durfile.items, NumEntries)

\* A completed run with two recorded files of different sizes.
C8_Witness ==
    /\ pc = "done"
    /\ Len(durfile.items) >= 2
    /\ disk[FilenameOf(1)].size # disk[FilenameOf(2)].size
    /\ reported > 0

\* ---------------------------------------------------------------- C9
\* C9: a second run on the directory a completed first run left, with the
\* same table and synthesizer, reprocesses every entry and, once complete,
\* leaves every clip file and durations.json as the first run left them.
C9_SecondRunChangesNothing ==
    (rerun /\ pc = "done") =>
        /\ disk = pre.disk
        /\ durfile = pre.durfile
        /\ Len(durations) = NumEntries
        /\ \A k \in 1..NumEntries : YieldOf(k) # <<>> => WritesOf(k) # {}

\* A completed second run that wrote a clip and measured an older file.
C9_Witness ==
    /\ rerun
    /\ pc = "done"
    /\ Len(writes) >= 1
    /\ \E k \in 1..NumEntries : YieldOf(k) = <<>>

\* --------------------------------------------------------------- C10
\* C10: an entry whose synthesis yields nothing is measured all the same:
\* the file already under its name is left as it was, its size-derived
\* duration is recorded and added to the total; without such a file the run
\* aborts at that entry, with durations.json not written.
C10_EmptyEntryMeasuresOldFile ==
    /\ \A k \in 1..NumEntries :
          (PastMeasure(k) /\ YieldOf(k) = <<>>) =>
              /\ pre.disk[FilenameOf(k)] # NoFile
              /\ disk[FilenameOf(k)] = pre.disk[FilenameOf(k)]
              /\ FilenameOf(k) \in Keys(durations)
              /\ IsRoundedMs(MsOf(durations, FilenameOf(k)), pre.disk[FilenameOf(k)].size)
    /\ pc \in {"synth", "write", "measure", "save", "done"} =>
          total_dur = RecordedBytes(durations, NumEntries)
    /\ (pc = "aborted" /\ failedAt = "measure") =>
          /\ chunks = <<>>
          /\ error = "FileNotFoundError"
          /\ disk[FilenameOf(idx)] = NoFile
          /\ durfile = pre.durfile
          /\ durWrites = 0
    /\ (pc = "save" \/ pc = "done") =>
          \A k \in 1..NumEntries : YieldOf(k) = <<>> => pre.disk[FilenameOf(k)] # NoFile

\* The first entry, empty, took the duration of an older file; the second,
\* empty too, had no file and ended the run.
C10_Witness ==
    /\ pc = "aborted"
    /\ failedAt = "measure"
    /\ idx = 2
    /\ YieldOf(1) = <<>>
    /\ FilenameOf(1) \in Keys(durations)
    /\ total_dur > 0

====
